---- MODULE Spec2Model ----
(***************************************************************************)
(* Model of claude_code_discord_agent.main: ClaudeDiscordBot.on_message    *)
(* and ClaudeDiscordBot.handle_mention.                                    *)
(*                                                                         *)
(* A Python str is a sequence of one-character strings.  Every await of    *)
(* the coroutines is a step boundary: the code between two awaits is one   *)
(* atomic action (single-threaded cooperative scheduling of asyncio).      *)
(***************************************************************************)
EXTENDS Integers, Sequences, FiniteSets, TLC

(***************************************************************************)
(* Bounds of the model.                                                    *)
(***************************************************************************)
\* number of message slots the event loop dispatches on_message for
MaxMsgs == 2
\* longest event stream one query() yields
MaxEvents == 2
\* largest number of members of an exception group raised by query()
MaxErrs == 2

Msgs == 1..MaxMsgs

(***************************************************************************)
(* Program constants.                                                      *)
(***************************************************************************)
\* main.py:123, `len(responses) > 4000`
MaxReplyLen == 4000

\* self.user and another member of the guild
BotUser == "bot"
OtherUser == "alice"
Users == {BotUser, OtherUser}

\* f"<@{self.user.id}>" with self.user.id = 1
MentionToken == <<"<", "@", "1", ">">>

\* the characters str.strip() removes that the model's alphabet contains
Whitespace == {" ", "\n", "\t"}

(***************************************************************************)
(* str operations.                                                         *)
(***************************************************************************)
\* c * n
Rep(c, n) == [i \in 1..n |-> c]

\* s.replace(old, ""): leftmost non-overlapping occurrences, one pass
RECURSIVE RemoveAll(_, _)
RemoveAll(s, old) ==
  IF Len(s) < Len(old) THEN s
  ELSE IF SubSeq(s, 1, Len(old)) = old
       THEN RemoveAll(SubSeq(s, Len(old) + 1, Len(s)), old)
       ELSE <<Head(s)>> \o RemoveAll(Tail(s), old)

\* s.strip()
Strip(s) ==
  LET keep == {i \in 1..Len(s) : s[i] \notin Whitespace}
  IN  IF keep = {} THEN <<>>
      ELSE LET lo == CHOOSE i \in keep : \A j \in keep : i <= j
               hi == CHOOSE i \in keep : \A j \in keep : j <= i
           IN  SubSeq(s, lo, hi)

\* sep.join(parts) for a list of str
RECURSIVE Join(_, _)
Join(sep, parts) ==
  IF Len(parts) = 0 THEN <<>>
  ELSE IF Len(parts) = 1 THEN parts[1]
  ELSE parts[1] \o sep \o Join(sep, Tail(parts))

\* "\n".join(s) for a str s: str.join iterates its argument, and iterating a
\* str yields its characters, so the separator goes between the characters
JoinChars(s) ==
  IF Len(s) = 0 THEN <<>>
  ELSE [i \in 1..(2 * Len(s) - 1) |-> IF i % 2 = 1 THEN s[(i + 1) \div 2] ELSE "\n"]

\* the str of a Python literal, character by character
KeyCommand == <<"c", "o", "m", "m", "a", "n", "d">>
KeyDescription == <<"d", "e", "s", "c", "r", "i", "p", "t", "i", "o", "n">>
KeyPath == <<"p", "a", "t", "h">>
NameBash == <<"B", "a", "s", "h">>
NameWrite == <<"W", "r", "i", "t", "e">>
\* str(None), what an f-string renders for None
StrNone == <<"N", "o", "n", "e">>
\* the grave accent U+0060, which the TLA+ lexer does not accept inside a string
Backtick == "GRAVE"
Fence == <<Backtick, Backtick, Backtick>>

(***************************************************************************)
(* dict operations.  A dict is the sequence of its <<key, value>> items in *)
(* insertion order; keys and values are str.                               *)
(***************************************************************************)
HasKey(d, k) == \E i \in 1..Len(d) : d[i][1] = k

\* d[k], for a key that is present
Lookup(d, k) == d[CHOOSE i \in 1..Len(d) : d[i][1] = k][2]

\* d.get(k) rendered by an f-string: the value, or str(None) when absent
GetStr(d, k) == IF HasKey(d, k) THEN Lookup(d, k) ELSE StrNone

\* the escapes json.dumps(..., ensure_ascii=False) applies inside a string
JsonEscapeChar(c) ==
  IF c = "\"" THEN <<"\\", "\"">>
  ELSE IF c = "\\" THEN <<"\\", "\\">>
  ELSE IF c = "\n" THEN <<"\\", "n">>
  ELSE IF c = "\t" THEN <<"\\", "t">>
  ELSE <<c>>

RECURSIVE JsonEscape(_)
JsonEscape(s) ==
  IF Len(s) = 0 THEN <<>> ELSE JsonEscapeChar(Head(s)) \o JsonEscape(Tail(s))

JsonStr(s) == <<"\"">> \o JsonEscape(s) \o <<"\"">>

\* json.dumps(d, indent=2, ensure_ascii=False) for a dict of str to str
JsonDumps(d) ==
  IF Len(d) = 0 THEN <<"{", "}">>
  ELSE LET item(i) == <<" ", " ">> \o JsonStr(d[i][1]) \o <<":", " ">> \o JsonStr(d[i][2])
       IN  <<"{", "\n">> \o Join(<<",", "\n">>, [i \in 1..Len(d) |-> item(i)])
             \o <<"\n", "}">>

(***************************************************************************)
(* Response events of claude_code_sdk.query and their content blocks.     *)
(***************************************************************************)
TextBlock(t) == [kind |-> "TextBlock", text |-> t, name |-> <<>>, input |-> <<>>]
ToolUseBlock(n, d) == [kind |-> "ToolUseBlock", text |-> <<>>, name |-> n, input |-> d]
\* a block variant that is neither TextBlock nor ToolUseBlock
ThinkingBlock == [kind |-> "ThinkingBlock", text |-> <<>>, name |-> <<>>, input |-> <<>>]

AssistantMessage(blocks) == [type |-> "AssistantMessage", content |-> blocks]
\* an event that is not an AssistantMessage (SystemMessage, ResultMessage, ...)
SystemMessage == [type |-> "SystemMessage", content |-> <<>>]

\* faulty variant of FlattenBlock: a tool-use block is appended as one
\* fragment, the label and the code block joined by a newline
FlattenBlockMerged(block) ==
  IF block.kind = "TextBlock"
  THEN [frags |-> <<block.text>>, raised |-> FALSE]
  ELSE IF block.kind = "ToolUseBlock"
  THEN [frags |-> << <<"*", "*">> \o block.name \o <<"*", "*", "\n">>
                       \o Fence \o <<"\n">> \o JsonDumps(block.input) \o <<"\n">> \o Fence >>,
        raised |-> block.name = NameBash /\ ~HasKey(block.input, KeyCommand)]
  ELSE [frags |-> <<>>, raised |-> FALSE]

\* lines 104-116: the fragments one content block appends to `responses`, and
\* whether it raised (block.input['command'] of a Bash block without that key)
FlattenBlock(block) ==
  IF block.kind = "TextBlock"
  THEN [frags |-> <<block.text>>, raised |-> FALSE]
  ELSE IF block.kind = "ToolUseBlock"
  THEN IF block.name = NameBash
       THEN IF HasKey(block.input, KeyCommand)
            THEN [frags |-> << <<"*", "*">> \o block.name \o <<"*", "*">>,
                               Fence \o <<"\n", "$", " ">> \o Lookup(block.input, KeyCommand)
                                 \o <<" ", "#", " ">> \o GetStr(block.input, KeyDescription)
                                 \o <<"\n">> \o Fence >>,
                  raised |-> FALSE]
            \* the label is appended before the lookup raises KeyError
            ELSE [frags |-> << <<"*", "*">> \o block.name \o <<"*", "*">> >>,
                  raised |-> TRUE]
       ELSE [frags |-> << <<"*", "*">> \o block.name \o <<"*", "*">>,
                          Fence \o <<"\n">> \o JsonDumps(block.input) \o <<"\n">> \o Fence >>,
             raised |-> FALSE]
  ELSE [frags |-> <<>>, raised |-> FALSE]

\* lines 103-116: the loop over response.content, stopped by the first raise
RECURSIVE FlattenBlocks(_)
FlattenBlocks(blocks) ==
  IF Len(blocks) = 0 THEN [frags |-> <<>>, raised |-> FALSE]
  ELSE LET first == FlattenBlock(Head(blocks))
       IN  IF first.raised THEN first
           ELSE LET rest == FlattenBlocks(Tail(blocks))
                IN  [frags |-> first.frags \o rest.frags, raised |-> rest.raised]

\* lines 102-116: what one streamed event appends to `responses`
FlattenEvent(ev) ==
  IF ev.type = "AssistantMessage" THEN FlattenBlocks(ev.content)
  ELSE [frags |-> <<>>, raised |-> FALSE]

(***************************************************************************)
(* The events the assistant backend may stream.                            *)
(***************************************************************************)
BashLs == ToolUseBlock(NameBash, << <<KeyCommand, <<"l", "s">> >>,
                                    <<KeyDescription, <<"l", "i", "s", "t">> >> >>)
BashNoDescription == ToolUseBlock(NameBash, << <<KeyCommand, <<"l", "s">> >> >>)
BashNoCommand == ToolUseBlock(NameBash, << <<KeyDescription, <<"l", "i", "s", "t">> >> >>)
WriteX == ToolUseBlock(NameWrite, << <<KeyPath, <<"x", ".", "t", "x", "t">> >> >>)

Events ==
  { SystemMessage,
    AssistantMessage(<<>>),
    AssistantMessage(<<TextBlock(<<>>)>>),
    AssistantMessage(<<TextBlock(<<"a">>)>>),
    AssistantMessage(<<TextBlock(<<"h", "i">>)>>),
    AssistantMessage(<<TextBlock(<<"a">>), BashLs, TextBlock(<<"b">>)>>),
    AssistantMessage(<<BashNoDescription>>),
    AssistantMessage(<<WriteX>>),
    AssistantMessage(<<ThinkingBlock, TextBlock(<<"b">>)>>),
    AssistantMessage(<<TextBlock(<<"a">>), BashNoCommand>>),
    AssistantMessage(<<TextBlock(Rep("x", MaxReplyLen - 2))>>),
    AssistantMessage(<<TextBlock(Rep("x", MaxReplyLen))>>),
    AssistantMessage(<<TextBlock(Rep("x", MaxReplyLen + 1))>>) }

(***************************************************************************)
(* Configuration and inbound messages.                                     *)
(***************************************************************************)
TemplateNames == {"empty_message", "long_response_warning", "empty_response", "general_error"}

\* config["messages"] of a configuration that holds the four templates
FullMessages ==
  [ empty_message |-> <<"E", "M">>,
    long_response_warning |-> <<"L", "W">>,
    empty_response |-> <<"E", "R">>,
    general_error |-> <<"G", "E">> ]

\* config["discord"]["bot_token"] of config.example.yaml, which main rejects
PlaceholderToken == <<"y", "o", "u", "r", "_", "d", "i", "s", "c", "o", "r", "d", "_", "b", "o", "t", "_", "t", "o", "k", "e", "n", "_", "h", "e", "r", "e">>
\* a configured token
GoodToken == <<"t", "e", "s", "t", "_", "t", "o", "k", "e", "n">>

FullConfig ==
  [ discord |-> [bot_token |-> GoodToken, prefix |-> <<"!">>],
    logging |-> [level |-> <<"I", "N", "F", "O">>, format |-> <<"%">>],
    messages |-> FullMessages ]

\* None, as yaml.safe_load returns it for an empty document and load_config
\* for a file it could not load
None == [None |-> TRUE]
\* {}
EmptyDict == [k \in {} |-> <<>>]

\* d without the key k
Without(d, k) == [x \in DOMAIN d \ {k} |-> d[x]]

\* the documents config.yaml may hold
ConfigDocuments ==
  { None,
    EmptyDict,
    FullConfig,
    [FullConfig EXCEPT !.discord.bot_token = PlaceholderToken],
    [FullConfig EXCEPT !.discord.bot_token = <<>>],
    [FullConfig EXCEPT !.messages = Without(FullMessages, "general_error")],
    [FullConfig EXCEPT !.messages =
       Without(Without(FullMessages, "empty_message"), "empty_response")],
    Without(FullConfig, "logging"),
    [FullConfig EXCEPT !.discord = Without(FullConfig.discord, "prefix")],
    [x \in DOMAIN FullConfig \cup {"claude_code"} |->
       IF x = "claude_code" THEN [api_key |-> <<"k">>] ELSE FullConfig[x]] }

\* config.yaml: absent, not readable (open raises PermissionError), not
\* parsable as YAML, or holding a document
ConfigFiles ==
  { [state |-> "missing", doc |-> None],
    [state |-> "unreadable", doc |-> None],
    [state |-> "malformed", doc |-> None] }
  \cup { [state |-> "ok", doc |-> d] : d \in ConfigDocuments }


\* message.content of the inbound messages
Contents ==
  { <<>>,
    MentionToken,
    <<" ">> \o MentionToken \o <<" ", "\n">>,
    MentionToken \o <<" ", "h", "i">>,
    <<"h", "i">> }

\* a discord.Message: author, mentions, content
InboundMessages ==
  [ author : Users,
    mentions : {{}, {BotUser}, {BotUser, OtherUser}, {OtherUser}},
    content : Contents ]

NoMessage == [author |-> "nobody", mentions |-> {}, content |-> <<>>]

(***************************************************************************)
(* State.                                                                  *)
(***************************************************************************)
VARIABLES
  file,          \* config.yaml
  boot,          \* how far main() has got
  loads,         \* open(config_path) calls made by load_config
  mainlog,       \* logger.error calls made by load_config and main
  environ,       \* os.environ holds ANTHROPIC_API_KEY
  config,        \* main's config, which becomes self.config
  pc,            \* pc[m]: the await at which the handling of message m stands
  message,       \* message[m]: the argument of on_message
  user_content,  \* handle_mention's local user_content
  responses,     \* handle_mention's local responses, the list of fragments
  stream,        \* the events the query of m has yielded so far, in order
  nEvents,       \* len(stream[m]), which MaxEvents bounds
  typing,        \* message.channel.typing() is entered
  e_group,       \* number of exceptions of the group the except* clause caught
  errlog,        \* self.logger.error calls made for m
  queries,       \* query() calls made for m
  sent,          \* message.reply calls made for m: <<[content, line]>>
  commands       \* self.process_commands(message) was called for m

vars == <<file, boot, loads, mainlog, environ, config, pc, message, user_content, responses, stream, nEvents, typing,
          e_group, errlog, queries, sent, commands>>

\* the state once main() has started the bot with a complete configuration
Init ==
  /\ file = [state |-> "ok", doc |-> FullConfig]
  /\ boot = "running"
  /\ loads = 1
  /\ mainlog = 0
  /\ environ = FALSE
  /\ config = FullConfig
  /\ pc = [m \in Msgs |-> "idle"]
  /\ message = [m \in Msgs |-> NoMessage]
  /\ user_content = [m \in Msgs |-> <<>>]
  /\ responses = [m \in Msgs |-> <<>>]
  /\ stream = [m \in Msgs |-> <<>>]
  /\ nEvents = [m \in Msgs |-> 0]
  /\ typing = [m \in Msgs |-> FALSE]
  /\ e_group = [m \in Msgs |-> 0]
  /\ errlog = [m \in Msgs |-> 0]
  /\ queries = [m \in Msgs |-> 0]
  /\ sent = [m \in Msgs |-> <<>>]
  /\ commands = [m \in Msgs |-> FALSE]

(***************************************************************************)
(* Pure parts of on_message and handle_mention.                            *)
(***************************************************************************)
\* faulty variant of IsOwnMessage: an own message that mentions the bot is
\* not recognised as own
IsOwnMessageUnlessMentioned(msg) == msg.author = BotUser /\ BotUser \notin msg.mentions

\* line 63: message.author == self.user
IsOwnMessage(msg) == msg.author = BotUser

\* faulty variant of MentionsBot: any mention triggers the handling
MentionsAnyone(msg) == msg.mentions # {}

\* line 67: self.user in message.mentions
MentionsBot(msg) == BotUser \in msg.mentions

\* faulty variant of ExtractPrompt: the .strip() is missing
ExtractPromptNoStrip(content) == RemoveAll(content, MentionToken)

\* s.replace(old, "", 1): the leftmost occurrence only
RECURSIVE RemoveFirst(_, _)
RemoveFirst(s, old) ==
  IF Len(s) < Len(old) THEN s
  ELSE IF SubSeq(s, 1, Len(old)) = old
       THEN SubSeq(s, Len(old) + 1, Len(s))
       ELSE <<Head(s)>> \o RemoveFirst(Tail(s), old)

\* faulty variant of ExtractPrompt: only the first mention is removed
ExtractPromptFirstOnly(content) == Strip(RemoveFirst(content, MentionToken))

\* line 82: message.content.replace(f"<@{self.user.id}>", "").strip()
ExtractPrompt(content) == Strip(RemoveAll(content, MentionToken))

\* line 85: not user_content
IsEmptyPrompt(prompt) == Len(prompt) = 0

\* line 122: responses = "\n".join(responses)
JoinResponses(frags) == Join(<<"\n">>, frags)

\* line 123: responses and len(responses) > 4000
IsTooLong(joined) == Len(joined) # 0 /\ Len(joined) > MaxReplyLen

\* line 127: len(responses) == 0
IsEmptyResponse(joined) == Len(joined) = 0

\* line 131: the argument of message.reply in the else branch, where
\* `responses` is already the joined str
TextReply(joined) == JoinChars(joined)

\* faulty variant of SelectReply: emptiness is tested on the list of
\* fragments instead of on the joined text
SelectReplyEmptyList(messages, frags) ==
  LET joined == JoinResponses(frags)
  IN  IF IsTooLong(joined)
      THEN [content |-> messages.long_response_warning, line |-> 124]
      ELSE IF Len(frags) = 0
      THEN [content |-> messages.empty_response, line |-> 129]
      ELSE [content |-> TextReply(joined), line |-> 131]

\* lines 122-131: the reply chosen for the list of fragments
SelectReply(messages, frags) ==
  LET joined == JoinResponses(frags)
  IN  IF IsTooLong(joined)
      THEN [content |-> messages.long_response_warning, line |-> 124]
      ELSE IF IsEmptyResponse(joined)
      THEN [content |-> messages.empty_response, line |-> 129]
      ELSE [content |-> TextReply(joined), line |-> 131]

\* the template key lines 122-131 look up for the list of fragments, if any
SelectKey(frags) ==
  LET joined == JoinResponses(frags)
  IN  IF IsTooLong(joined) THEN {"long_response_warning"}
      ELSE IF IsEmptyResponse(joined) THEN {"empty_response"}
      ELSE {}

\* lines 134-138: replies the handler sends for one exception of the group
HandlerReplies(messages) == <<[content |-> messages.general_error, line |-> 138]>>

(***************************************************************************)
(* Actions: one per stretch of code between two awaits.                    *)
(***************************************************************************)
\* lines 55-68 and 80-85: the event loop calls on_message(msg); runs up to the
\* first await
on_message(m, msg) ==
  /\ pc[m] = "idle"
  /\ message' = [message EXCEPT ![m] = msg]
  /\ IF IsOwnMessage(msg)
     THEN /\ pc' = [pc EXCEPT ![m] = "done"]
          /\ UNCHANGED user_content
     ELSE IF MentionsBot(msg)
     THEN /\ user_content' = [user_content EXCEPT ![m] = ExtractPrompt(msg.content)]
          /\ pc' = [pc EXCEPT ![m] =
                      IF IsEmptyPrompt(ExtractPrompt(msg.content))
                      THEN "reply_empty" ELSE "typing"]
     ELSE /\ pc' = [pc EXCEPT ![m] = "commands"]
          /\ UNCHANGED user_content
  /\ UNCHANGED <<file, boot, loads, mainlog, environ, config, stream, responses, nEvents, typing, e_group, errlog, queries,
                 sent, commands>>

\* lines 86-87: await message.reply(empty_message); return
reply_empty(m) ==
  /\ pc[m] = "reply_empty"
  /\ "empty_message" \in DOMAIN config.messages
  /\ sent' = [sent EXCEPT ![m] =
                Append(@, [content |-> config.messages.empty_message, line |-> 86])]
  /\ pc' = [pc EXCEPT ![m] = "commands"]
  /\ UNCHANGED <<file, boot, loads, mainlog, environ, config, stream, message, user_content, responses, nEvents, typing,
                 e_group, errlog, queries, commands>>

\* lines 90-97: enter message.channel.typing(), responses = [], call query()
\* and await its first event
start_query(m) ==
  /\ pc[m] = "typing"
  /\ typing' = [typing EXCEPT ![m] = TRUE]
  /\ responses' = [responses EXCEPT ![m] = <<>>]
  /\ queries' = [queries EXCEPT ![m] = @ + 1]
  /\ pc' = [pc EXCEPT ![m] = "query"]
  /\ UNCHANGED <<file, boot, loads, mainlog, environ, config, stream, message, user_content, nEvents, e_group, errlog,
                 sent, commands>>

\* lines 95-116: the query yields event ev; its blocks are flattened.  A
\* KeyError raised by a block leaves the async with and enters the except*
\* clause as a group of one exception
next_event(m, ev) ==
  /\ pc[m] = "query"
  /\ nEvents[m] < MaxEvents
  /\ nEvents' = [nEvents EXCEPT ![m] = @ + 1]
  /\ stream' = [stream EXCEPT ![m] = Append(@, ev)]
  /\ responses' = [responses EXCEPT ![m] = @ \o FlattenEvent(ev).frags]
  /\ IF FlattenEvent(ev).raised
     THEN /\ typing' = [typing EXCEPT ![m] = FALSE]
          /\ e_group' = [e_group EXCEPT ![m] = 1]
          /\ pc' = [pc EXCEPT ![m] = "handler"]
     ELSE UNCHANGED <<typing, e_group, pc>>
  /\ UNCHANGED <<file, boot, loads, mainlog, environ, config, message, user_content,
                 errlog, queries, sent, commands>>

\* lines 119-131: the stream is exhausted; join, choose the reply, send it,
\* leave the async with, return to on_message
end_of_stream(m) ==
  /\ pc[m] = "query"
  /\ SelectKey(responses[m]) \subseteq DOMAIN config.messages
  /\ sent' = [sent EXCEPT ![m] = Append(@, SelectReply(config.messages, responses[m]))]
  /\ typing' = [typing EXCEPT ![m] = FALSE]
  /\ pc' = [pc EXCEPT ![m] = "commands"]
  /\ UNCHANGED <<file, boot, loads, mainlog, environ, config, stream, message, user_content, responses, nEvents, e_group,
                 errlog, queries, commands>>

\* faulty variant of query_raises: the fragments collected so far are sent
\* before the except* clause is entered
query_raises_sending_partial(m, k) ==
  /\ pc[m] = "query"
  /\ typing' = [typing EXCEPT ![m] = FALSE]
  /\ e_group' = [e_group EXCEPT ![m] = k]
  /\ sent' = [sent EXCEPT ![m] =
                Append(@, [content |-> TextReply(JoinResponses(responses[m])), line |-> 131])]
  /\ pc' = [pc EXCEPT ![m] = "handler"]
  /\ UNCHANGED <<file, boot, loads, mainlog, environ, config, stream, message, user_content, responses, nEvents, errlog,
                 queries, commands>>

\* faulty variant of query_raises: the error is not contained in the handling
\* of m but ends every handling in flight
query_raises_cancelling_others(m, k) ==
  /\ pc[m] = "query"
  /\ typing' = [o \in Msgs |-> FALSE]
  /\ e_group' = [e_group EXCEPT ![m] = k]
  /\ pc' = [o \in Msgs |-> IF o = m THEN "handler"
                           ELSE IF pc[o] \in {"idle", "done"} THEN pc[o] ELSE "raised"]
  /\ UNCHANGED <<file, boot, loads, mainlog, environ, config, stream, message, user_content, responses, nEvents, errlog,
                 queries, sent, commands>>

\* faulty variant of query_raises: the indicator is not tied to the async
\* with block and stays on when the query raises
query_raises_keeping_typing(m, k) ==
  /\ pc[m] = "query"
  /\ e_group' = [e_group EXCEPT ![m] = k]
  /\ pc' = [pc EXCEPT ![m] = "handler"]
  /\ UNCHANGED <<file, boot, loads, mainlog, environ, config, stream, message, user_content, responses, nEvents, errlog,
                 queries, sent, commands, typing>>

\* line 95 raising: the query fails with one exception (k = 1, which except*
\* wraps in a group) or with an exception group of k members; the async with
\* is left and the except* clause entered
query_raises(m, k) ==
  /\ pc[m] = "query"
  /\ typing' = [typing EXCEPT ![m] = FALSE]
  /\ e_group' = [e_group EXCEPT ![m] = k]
  /\ pc' = [pc EXCEPT ![m] = "handler"]
  /\ UNCHANGED <<file, boot, loads, mainlog, environ, config, stream, message, user_content, responses, nEvents, errlog,
                 queries, sent, commands>>

\* lines 134-138: one iteration of the loop over e_group.exceptions: log the
\* exception, await the reply
handle_exception(m) ==
  /\ pc[m] = "handler"
  /\ "general_error" \in DOMAIN config.messages
  /\ errlog' = [errlog EXCEPT ![m] = @ + 1]
  /\ sent' = [sent EXCEPT ![m] = @ \o HandlerReplies(config.messages)]
  /\ pc' = [pc EXCEPT ![m] = IF errlog[m] + 1 >= e_group[m] THEN "commands" ELSE "handler"]
  /\ UNCHANGED <<file, boot, loads, mainlog, environ, config, stream, message, user_content, responses, nEvents, typing,
                 e_group, queries, commands>>

\* line 71: await self.process_commands(message); on_message returns
process_commands(m) ==
  /\ pc[m] = "commands"
  /\ commands' = [commands EXCEPT ![m] = TRUE]
  /\ pc' = [pc EXCEPT ![m] = "done"]
  /\ UNCHANGED <<file, boot, loads, mainlog, environ, config, stream, message, user_content, responses, nEvents, typing,
                 e_group, errlog, queries, sent>>

\* the message and the locals of its coroutines are dropped once on_message
\* has returned or raised
discard(m) ==
  /\ pc[m] \in {"done", "raised"}
  /\ pc' = [pc EXCEPT ![m] = "idle"]
  /\ message' = [message EXCEPT ![m] = NoMessage]
  /\ user_content' = [user_content EXCEPT ![m] = <<>>]
  /\ responses' = [responses EXCEPT ![m] = <<>>]
  /\ stream' = [stream EXCEPT ![m] = <<>>]
  /\ nEvents' = [nEvents EXCEPT ![m] = 0]
  /\ typing' = [typing EXCEPT ![m] = FALSE]
  /\ e_group' = [e_group EXCEPT ![m] = 0]
  /\ errlog' = [errlog EXCEPT ![m] = 0]
  /\ queries' = [queries EXCEPT ![m] = 0]
  /\ sent' = [sent EXCEPT ![m] = <<>>]
  /\ commands' = [commands EXCEPT ![m] = FALSE]
  /\ UNCHANGED <<file, boot, loads, mainlog, environ, config>>

\* no other message is being handled
Alone(m) == \A o \in Msgs \ {m} : pc[o] = "idle"

\* Messages handled one after the other, the platform accepting every send
Next ==
  \E m \in Msgs :
    \/ \E msg \in InboundMessages : Alone(m) /\ on_message(m, msg)
    \/ reply_empty(m)
    \/ start_query(m)
    \/ \E ev \in Events : next_event(m, ev)
    \/ end_of_stream(m)
    \/ \E k \in 1..MaxErrs : query_raises(m, k)
    \/ handle_exception(m)
    \/ process_commands(m)
    \/ discard(m)

Spec == Init /\ [][Next]_vars

(***************************************************************************)
(* The platform rejecting a send: message.reply raises (discord.Forbidden, *)
(* discord.HTTPException).                                                 *)
(***************************************************************************)
\* line 86 raising: the except* clause is entered with a group of one
reply_empty_raises(m) ==
  /\ pc[m] = "reply_empty"
  /\ e_group' = [e_group EXCEPT ![m] = 1]
  /\ pc' = [pc EXCEPT ![m] = "handler"]
  /\ UNCHANGED <<file, boot, loads, mainlog, environ, config, stream, message, user_content, responses, nEvents, typing,
                 errlog, queries, sent, commands>>

\* line 124, 129 or 131 raising: the async with is left and the except*
\* clause entered with a group of one
end_of_stream_reply_raises(m) ==
  /\ pc[m] = "query"
  /\ typing' = [typing EXCEPT ![m] = FALSE]
  /\ e_group' = [e_group EXCEPT ![m] = 1]
  /\ pc' = [pc EXCEPT ![m] = "handler"]
  /\ UNCHANGED <<file, boot, loads, mainlog, environ, config, stream, message, user_content, responses, nEvents, errlog,
                 queries, sent, commands>>

\* line 138 raising, after line 137 has logged: the exception is raised inside
\* the except* clause, so it leaves handle_mention and then on_message, whose
\* line 71 is not reached
handle_exception_reply_raises(m) ==
  /\ pc[m] = "handler"
  /\ errlog' = [errlog EXCEPT ![m] = @ + 1]
  /\ pc' = [pc EXCEPT ![m] = "raised"]
  /\ UNCHANGED <<file, boot, loads, mainlog, environ, config, stream, message, user_content, responses, nEvents, typing,
                 e_group, queries, sent, commands>>

\* Messages handled one after the other, the platform accepting or rejecting
\* each send
NextUnreliable ==
  \/ Next
  \/ \E m \in Msgs :
       \/ reply_empty_raises(m)
       \/ end_of_stream_reply_raises(m)
       \/ handle_exception_reply_raises(m)

SpecUnreliable == Init /\ [][NextUnreliable]_vars

(***************************************************************************)
(* Vocabulary of the properties.                                           *)
(***************************************************************************)
\* m is a message by someone else that mentions the bot
IsMention(m) == message[m].author # BotUser /\ BotUser \in message[m].mentions

\* handle_mention(m) has returned normally
Returned(m) == IsMention(m) /\ pc[m] \in {"commands", "done"}

\* handle_mention(m) has finished, normally or by raising
Finished(m) == IsMention(m) /\ pc[m] \in {"commands", "done", "raised"}

\* the query of m ran to the end of its stream and nothing raised
Succeeded(m) == Returned(m) /\ queries[m] = 1 /\ e_group[m] = 0

\* the text T of m: its fragments joined with newlines
JoinedText(m) == Join(<<"\n">>, responses[m])

\* the contents of the replies sent for m
Replies(m) == [i \in 1..Len(sent[m]) |-> sent[m][i].content]

\* message text that is empty once the mention token is removed and the rest trimmed
PromptIsEmpty(m) == Strip(RemoveAll(message[m].content, MentionToken)) = <<>>

(***************************************************************************)
(* Properties.                                                             *)
(***************************************************************************)
\* C1: once handle_mention has finished for a mention not authored by the
\* bot, exactly one reply has been sent for it.  Refuted: a query failing
\* with an exception group of k members is answered k times.
C1_ExactlyOneReply == \A m \in Msgs : Finished(m) => Len(sent[m]) = 1

\* C2: after a successful query whose joined text T has 0 < len(T) <= 4000,
\* the one reply is T, character for character.  Refuted: line 131 joins the
\* characters of T with newlines.
C2_ReplyIsJoinedText ==
  \A m \in Msgs :
    (Succeeded(m) /\ Len(JoinedText(m)) > 0 /\ Len(JoinedText(m)) <= MaxReplyLen)
      => Replies(m) = <<JoinedText(m)>>

\* C3: no error raised while a mention is handled leaves handle_mention, and
\* a mention whose handling has returned has been answered.  Refuted: an
\* error raised by line 138 leaves the except* clause.
C3_NoErrorEscapes ==
  \A m \in Msgs :
    /\ pc[m] # "raised"
    /\ Returned(m) => Len(sent[m]) >= 1

\* C4: a handling that failed with an exception group of k >= 2 members has
\* logged each member at error severity and sent exactly one general_error
\* reply.  Refuted: the reply is sent inside the loop, once per member.
C4_OneReplyPerGroup ==
  \A m \in Msgs :
    (Returned(m) /\ e_group[m] >= 2)
      => /\ errlog[m] = e_group[m]
         /\ Replies(m) = <<config.messages.general_error>>

\* C5: when the handling of a mention fails after fragments were collected,
\* every reply sent for it is the general_error template, sent by the
\* handler, and once handle_mention has returned there is such a reply.
C5_PartialNeverSent ==
  \A m \in Msgs :
    (IsMention(m) /\ e_group[m] > 0 /\ responses[m] # <<>>)
      => /\ \A i \in 1..Len(sent[m]) :
              /\ sent[m][i].content = config.messages.general_error
              /\ sent[m][i].line = 138
         /\ Returned(m) => Len(sent[m]) >= 1

C5_Witness ==
  \E m \in Msgs :
    /\ Returned(m) /\ e_group[m] = 1 /\ nEvents[m] >= 1
    /\ responses[m] = << <<"h", "i">> >>
    /\ Replies(m) = <<config.messages.general_error>>

\* C6: a mention whose text is empty after removing the mention token and
\* trimming is never queried for (no query, no typing indicator, no policy
\* check on a response), and once handled its one reply is the empty_message
\* template.
C6_EmptyPromptShortCircuits ==
  \A m \in Msgs :
    (IsMention(m) /\ PromptIsEmpty(m))
      => /\ queries[m] = 0
         /\ pc[m] \in {"reply_empty", "commands", "done"}
         /\ Returned(m) => Replies(m) = <<config.messages.empty_message>>
         /\ \A i \in 1..Len(sent[m]) : sent[m][i].line = 86

C6_Witness ==
  \E m \in Msgs :
    /\ Returned(m)
    /\ message[m].content = <<" ">> \o MentionToken \o <<" ", "\n">>
    /\ Replies(m) = <<config.messages.empty_message>>
    /\ queries[m] = 0

\* C7: for a message whose mentions do not contain the bot, no reply is sent
\* and no query is issued.
C7_NoMentionNoReply ==
  \A m \in Msgs :
    (pc[m] # "idle" /\ BotUser \notin message[m].mentions)
      => /\ sent[m] = <<>>
         /\ queries[m] = 0
         /\ pc[m] \in {"commands", "done"}

C7_Witness ==
  \E m \in Msgs :
    /\ pc[m] = "done" /\ commands[m]
    /\ message[m].author = OtherUser
    /\ message[m].mentions = {OtherUser}
    /\ message[m].content = MentionToken \o <<" ", "h", "i">>
    /\ sent[m] = <<>>

\* C8: for a message authored by the bot, also one that mentions the bot,
\* on_message does nothing: no reply, no query, no command processing.
C8_OwnMessageIgnored ==
  \A m \in Msgs :
    (pc[m] # "idle" /\ message[m].author = BotUser)
      => /\ pc[m] = "done"
         /\ sent[m] = <<>>
         /\ queries[m] = 0
         /\ ~commands[m]
         /\ ~typing[m]

C8_Witness ==
  \E m \in Msgs :
    /\ pc[m] = "done"
    /\ message[m].author = BotUser
    /\ BotUser \in message[m].mentions
    /\ message[m].content = MentionToken \o <<" ", "h", "i">>
    /\ sent[m] = <<>> /\ ~commands[m]

\* C9: after a successful query whose joined text T is longer than 4000, the
\* one reply is the long_response_warning template; a T of exactly 4000
\* characters is answered with T.  Refuted at 4000: the reply is not T but
\* T's characters joined with newlines (C2).
C9_OversizedWithheld ==
  \A m \in Msgs :
    /\ (Succeeded(m) /\ Len(JoinedText(m)) > MaxReplyLen)
         => Replies(m) = <<config.messages.long_response_warning>>
    /\ (Succeeded(m) /\ Len(JoinedText(m)) = MaxReplyLen)
         => Replies(m) = <<JoinedText(m)>>

\* C10: after a successful query whose joined text is empty, the one reply
\* is the empty_response template.
C10_EmptyResponse ==
  \A m \in Msgs :
    (Succeeded(m) /\ Len(JoinedText(m)) = 0)
      => /\ Replies(m) = <<config.messages.empty_response>>
         /\ sent[m][1].line = 129

C10_Witness ==
  \E m \in Msgs :
    /\ Succeeded(m) /\ nEvents[m] = 2
    /\ responses[m] = <<>>
    /\ Replies(m) = <<config.messages.empty_response>>

(***************************************************************************)
(* Flattening, stated on the stream (C11, C12).                            *)
(***************************************************************************)
\* the content blocks of the assistant messages of a stream, in stream order
RECURSIVE BlocksOf(_)
BlocksOf(events) ==
  IF Len(events) = 0 THEN <<>>
  ELSE (IF Head(events).type = "AssistantMessage" THEN Head(events).content ELSE <<>>)
         \o BlocksOf(Tail(events))

\* fragments a block stands for: one per text block, two per tool-use block
FragmentCount(block) ==
  IF block.kind = "TextBlock" THEN 1 ELSE IF block.kind = "ToolUseBlock" THEN 2 ELSE 0

BoldLabel(name) == <<"*", "*">> \o name \o <<"*", "*">>

\* s is a fenced code block
IsFenced(s) ==
  /\ Len(s) >= 8
  /\ SubSeq(s, 1, 4) = Fence \o <<"\n">>
  /\ SubSeq(s, Len(s) - 3, Len(s)) = <<"\n">> \o Fence

\* frags are the fragments of the one block
BlockMatches(block, frags) ==
  IF block.kind = "TextBlock" THEN frags = <<block.text>>
  ELSE IF block.kind = "ToolUseBlock"
  THEN frags[1] = BoldLabel(block.name) /\ IsFenced(frags[2])
  ELSE TRUE

\* frags is the concatenation, in order, of the fragments of the blocks
RECURSIVE BlocksMatch(_, _)
BlocksMatch(blocks, frags) ==
  IF Len(blocks) = 0 THEN Len(frags) = 0
  ELSE LET n == FragmentCount(Head(blocks))
       IN  /\ Len(frags) >= n
           /\ BlockMatches(Head(blocks), SubSeq(frags, 1, n))
           /\ BlocksMatch(Tail(blocks), SubSeq(frags, n + 1, Len(frags)))

\* a Bash tool-use block whose input has no command key
LacksCommand(block) ==
  block.kind = "ToolUseBlock" /\ block.name = NameBash /\ ~HasKey(block.input, KeyCommand)

\* no block of the stream raises when it is flattened
Flattenable(events) ==
  \A i \in 1..Len(BlocksOf(events)) : ~LacksCommand(BlocksOf(events)[i])

\* C11 as claimed: for every stream, the fragments built are one per text
\* block, two (bold label, fenced code block) per tool-use block and none for
\* anything else, in order.  Refuted: a Bash block without a command key
\* appends its label alone, and line 110 raises KeyError.
C11_FragmentsOfEveryStream ==
  \A m \in Msgs : BlocksMatch(BlocksOf(stream[m]), responses[m])

\* C11 as amended: the same for every stream in which each Bash block has a
\* command; a Bash block without one appends only its label and ends the
\* handling with one exception.
C11_FragmentsOfFlattenableStream ==
  \A m \in Msgs :
    /\ Flattenable(stream[m]) => BlocksMatch(BlocksOf(stream[m]), responses[m])
    /\ ~Flattenable(stream[m])
         => /\ e_group[m] = 1
            /\ responses[m][Len(responses[m])] = BoldLabel(NameBash)

C11_Witness ==
  \E m \in Msgs :
    /\ pc[m] = "query" /\ Len(stream[m]) = 2
    /\ stream[m][1] = AssistantMessage(<<ThinkingBlock, TextBlock(<<"b">>)>>)
    /\ stream[m][2] = AssistantMessage(<<TextBlock(<<"a">>), BashLs, TextBlock(<<"b">>)>>)
    /\ Len(responses[m]) = 5
    /\ responses[m][3] = BoldLabel(NameBash)

\* C12: a Bash block with a command and without a description is rendered
\* with an empty description, "$ <command> # " in a fenced block.  Refuted:
\* the f-string renders input.get('description'), which is None, as "None".
C12_AbsentDescriptionIsEmpty ==
  \A m \in Msgs :
    \A i \in 1..Len(stream[m]) :
      LET ev == stream[m][i]
      IN  (/\ i = Len(stream[m])
           /\ ev.type = "AssistantMessage"
           /\ Len(ev.content) = 1
           /\ ev.content[1].kind = "ToolUseBlock"
           /\ ev.content[1].name = NameBash
           /\ HasKey(ev.content[1].input, KeyCommand)
           /\ ~HasKey(ev.content[1].input, KeyDescription))
          => responses[m][Len(responses[m])]
               = Fence \o <<"\n", "$", " ">> \o Lookup(ev.content[1].input, KeyCommand)
                   \o <<" ", "#", " ">> \o <<"\n">> \o Fence

(***************************************************************************)
(* Two mentions handled concurrently (C13).  The event loop runs one       *)
(* stretch of code of one handling at a time and may switch to the other   *)
(* handling at every await.                                                *)
(***************************************************************************)
\* the two mentions A and B
ConcMsgs == {1, 2}

\* mentions by someone else, with an empty and with a non-empty prompt
ConcMessages ==
  { [author |-> OtherUser, mentions |-> {BotUser}, content |-> MentionToken \o <<" ", "h", "i">>],
    [author |-> OtherUser, mentions |-> {BotUser}, content |-> MentionToken] }

ConcEvents ==
  { AssistantMessage(<<TextBlock(<<"a">>)>>),
    AssistantMessage(<<BashLs>>) }

NextConc ==
  \E m \in ConcMsgs :
    \/ \E msg \in ConcMessages : on_message(m, msg)
    \/ reply_empty(m)
    \/ start_query(m)
    \/ \E ev \in ConcEvents : next_event(m, ev)
    \/ end_of_stream(m)
    \/ \E k \in 1..MaxErrs : query_raises(m, k)
    \/ handle_exception(m)
    \/ process_commands(m)
    \/ discard(m)

SpecConc == Init /\ [][NextConc]_vars

\* everything the handling of m reads or writes besides the configuration
Local(m) ==
  <<pc[m], message[m], user_content[m], responses[m], stream[m], nEvents[m],
    typing[m], e_group[m], errlog[m], queries[m], sent[m], commands[m]>>

\* the handling of m has not been ended from outside and its next step can be taken
NotBlocked(m) ==
  /\ pc[m] # "raised"
  /\ pc[m] = "reply_empty" => ENABLED reply_empty(m)
  /\ pc[m] = "typing" => ENABLED start_query(m)
  /\ pc[m] = "query" => ENABLED end_of_stream(m)
  /\ pc[m] = "handler" => ENABLED handle_exception(m)
  /\ pc[m] = "commands" => ENABLED process_commands(m)

\* the fragments and the reply of m come from the stream of m alone
OwnOutcome(m) ==
  /\ BlocksMatch(BlocksOf(stream[m]), responses[m])
  /\ Succeeded(m) => sent[m] = <<SelectReply(config.messages, responses[m])>>

\* C13: with A and B handled concurrently, a step of A's handling changes
\* nothing of B's, and while A's handling has failed B's is neither ended
\* nor blocked, and B's fragments and reply come from B's own stream.
C13_ErrorLeavesOtherHandlingAlone ==
  [][\A a \in ConcMsgs : \A b \in ConcMsgs \ {a} :
       /\ Local(a)' # Local(a) => Local(b)' = Local(b)
       /\ e_group[a] > 0 => (NotBlocked(b) /\ OwnOutcome(b))]_vars

C13_Witness ==
  \E a \in ConcMsgs : \E b \in ConcMsgs \ {a} :
    /\ pc[a] = "handler" /\ e_group[a] = 2 /\ errlog[a] = 1
    /\ responses[a] = << <<"a">> >>
    /\ pc[b] = "query" /\ typing[b]
    /\ stream[b] = <<AssistantMessage(<<BashLs>>)>>
    /\ Len(responses[b]) = 2


(***************************************************************************)
(* Startup: load_config and main (C14, C15, C16, C19).                     *)
(***************************************************************************)
\* faulty variant of LoadConfig: yaml.YAMLError is not caught
LoadConfigYamlErrorEscapes(f) ==
  IF f.state = "missing" THEN [raised |-> FALSE, result |-> None, errors |-> 2]
  ELSE IF f.state \in {"unreadable", "malformed"}
  THEN [raised |-> TRUE, result |-> None, errors |-> 0]
  ELSE [raised |-> FALSE, result |-> f.doc, errors |-> 0]

\* lines 167-180: what load_config returns, whether it raises instead, and the
\* logger.error calls it makes
LoadConfig(f) ==
  IF f.state = "missing" THEN [raised |-> FALSE, result |-> None, errors |-> 2]
  ELSE IF f.state = "malformed" THEN [raised |-> FALSE, result |-> None, errors |-> 1]
  \* an OSError other than FileNotFoundError is not caught
  ELSE IF f.state = "unreadable" THEN [raised |-> TRUE, result |-> None, errors |-> 0]
  ELSE [raised |-> FALSE, result |-> f.doc, errors |-> 0]

\* line 190: not config
IsFalsy(cfg) == cfg = None \/ DOMAIN cfg = {}

\* faulty variant of TokenRejected: the placeholder is not compared
TokenRejectedEmptyOnly(token) == Len(token) = 0

\* line 206: not token or token == "your_discord_bot_token_here"
TokenRejected(token) == Len(token) = 0 \/ token = PlaceholderToken

\* lines 195-198: the configuration names an api key
HasApiKey(cfg) ==
  /\ "claude_code" \in DOMAIN cfg
  /\ "api_key" \in DOMAIN cfg.claude_code
  /\ Len(cfg.claude_code.api_key) > 0

\* lines 190-215: how main goes on with the configuration load_config returned:
\* it raises, returns, or starts the bot; and the logger.error calls it makes
MainOutcome(cfg) ==
  \* line 191 reads the local `logger`, which line 202 binds: UnboundLocalError
  IF IsFalsy(cfg) THEN [boot |-> "raised", errors |-> 0]
  \* line 201, setup_logging: config["logging"]["level"], ["format"]
  ELSE IF "logging" \notin DOMAIN cfg \/ ~({"level", "format"} \subseteq DOMAIN cfg.logging)
  THEN [boot |-> "raised", errors |-> 0]
  \* line 205
  ELSE IF "discord" \notin DOMAIN cfg \/ "bot_token" \notin DOMAIN cfg.discord
  THEN [boot |-> "raised", errors |-> 0]
  \* lines 206-208
  ELSE IF TokenRejected(cfg.discord.bot_token) THEN [boot |-> "returned", errors |-> 1]
  \* line 211, __init__ line 35: config["discord"]["prefix"]
  ELSE IF "prefix" \notin DOMAIN cfg.discord THEN [boot |-> "raised", errors |-> 0]
  \* line 215
  ELSE [boot |-> "running", errors |-> 0]

\* line 189: config = load_config()
main_load_config ==
  /\ boot = "start"
  /\ loads' = loads + 1
  /\ mainlog' = mainlog + LoadConfig(file).errors
  /\ IF LoadConfig(file).raised
     THEN boot' = "raised_in_load" /\ UNCHANGED config
     ELSE boot' = "loaded" /\ config' = LoadConfig(file).result
  /\ UNCHANGED <<file, environ, pc, message, user_content, responses, stream, nEvents,
                 typing, e_group, errlog, queries, sent, commands>>

\* lines 190-215: the rest of main up to asyncio.run(bot.start(token))
main_startup ==
  /\ boot = "loaded"
  /\ boot' = MainOutcome(config).boot
  /\ mainlog' = mainlog + MainOutcome(config).errors
  /\ environ' = (~IsFalsy(config) /\ HasApiKey(config))
  /\ UNCHANGED <<file, loads, config, pc, message, user_content, responses, stream,
                 nEvents, typing, e_group, errlog, queries, sent, commands>>

\* lines 216-221: bot.start ends by KeyboardInterrupt or by an exception,
\* which main logs; modelled when no message is being handled, so that a
\* handling that has begun is in a running bot
bot_stops ==
  /\ boot = "running"
  /\ \A m \in Msgs : pc[m] = "idle"
  /\ boot' = "stopped"
  /\ \E logged \in {0, 1} : mainlog' = mainlog + logged
  /\ UNCHANGED <<file, loads, environ, config, pc, message, user_content, responses,
                 stream, nEvents, typing, e_group, errlog, queries, sent, commands>>

\* line 86 raising KeyError: the empty_message template is not configured
reply_empty_key_error(m) ==
  /\ pc[m] = "reply_empty"
  /\ "empty_message" \notin DOMAIN config.messages
  /\ e_group' = [e_group EXCEPT ![m] = 1]
  /\ pc' = [pc EXCEPT ![m] = "handler"]
  /\ UNCHANGED <<file, boot, loads, mainlog, environ, config, stream, message,
                 user_content, responses, nEvents, typing, errlog, queries, sent, commands>>

\* line 125 or 129 raising KeyError: the template chosen is not configured
end_of_stream_key_error(m) ==
  /\ pc[m] = "query"
  /\ ~(SelectKey(responses[m]) \subseteq DOMAIN config.messages)
  /\ typing' = [typing EXCEPT ![m] = FALSE]
  /\ e_group' = [e_group EXCEPT ![m] = 1]
  /\ pc' = [pc EXCEPT ![m] = "handler"]
  /\ UNCHANGED <<file, boot, loads, mainlog, environ, config, stream, message,
                 user_content, responses, nEvents, errlog, queries, sent, commands>>

\* line 138 raising KeyError after line 137 has logged: the general_error
\* template is not configured; the error leaves handle_mention and on_message
handle_exception_key_error(m) ==
  /\ pc[m] = "handler"
  /\ "general_error" \notin DOMAIN config.messages
  /\ errlog' = [errlog EXCEPT ![m] = @ + 1]
  /\ pc' = [pc EXCEPT ![m] = "raised"]
  /\ UNCHANGED <<file, boot, loads, mainlog, environ, config, stream, message,
                 user_content, responses, nEvents, typing, e_group, queries, sent, commands>>

StartupMessages ==
  { [author |-> OtherUser, mentions |-> {BotUser}, content |-> MentionToken \o <<" ", "h", "i">>],
    [author |-> OtherUser, mentions |-> {BotUser}, content |-> MentionToken],
    [author |-> OtherUser, mentions |-> {}, content |-> <<"h", "i">>],
    [author |-> BotUser, mentions |-> {BotUser}, content |-> <<"G", "E">>] }

StartupEvents == { AssistantMessage(<<TextBlock(<<"a">>)>>) }

InitStartup ==
  /\ file \in ConfigFiles
  /\ boot = "start"
  /\ loads = 0
  /\ mainlog = 0
  /\ environ = FALSE
  /\ config = None
  /\ pc = [m \in Msgs |-> "idle"]
  /\ message = [m \in Msgs |-> NoMessage]
  /\ user_content = [m \in Msgs |-> <<>>]
  /\ responses = [m \in Msgs |-> <<>>]
  /\ stream = [m \in Msgs |-> <<>>]
  /\ nEvents = [m \in Msgs |-> 0]
  /\ typing = [m \in Msgs |-> FALSE]
  /\ e_group = [m \in Msgs |-> 0]
  /\ errlog = [m \in Msgs |-> 0]
  /\ queries = [m \in Msgs |-> 0]
  /\ sent = [m \in Msgs |-> <<>>]
  /\ commands = [m \in Msgs |-> FALSE]

\* main from its first line, then the messages the running bot is sent,
\* handled one after the other, every send accepted
NextStartup ==
  \/ main_load_config
  \/ main_startup
  \/ bot_stops
  \/ \E m \in Msgs :
       \/ \E msg \in StartupMessages : boot = "running" /\ Alone(m) /\ on_message(m, msg)
       \/ reply_empty(m)
       \/ reply_empty_key_error(m)
       \/ start_query(m)
       \/ \E ev \in StartupEvents : next_event(m, ev)
       \/ end_of_stream(m)
       \/ end_of_stream_key_error(m)
       \/ \E k \in 1..MaxErrs : query_raises(m, k)
       \/ handle_exception(m)
       \/ handle_exception_key_error(m)
       \/ process_commands(m)
       \/ discard(m)

SpecStartup == InitStartup /\ [][NextStartup]_vars

\* config.yaml holds a document whose messages lack one of the four templates
TemplateMissing ==
  /\ file.state = "ok"
  /\ file.doc # None
  /\ "messages" \in DOMAIN file.doc
  /\ ~(TemplateNames \subseteq DOMAIN file.doc.messages)

\* main has reached asyncio.run(bot.start(token))
Started == boot \in {"running", "stopped"}

\* C14: with one of the four templates absent from the configuration, startup
\* fails and no mention is ever handled.  Refuted: main checks the token
\* only, the bot runs, and the missing template is a KeyError of the handling.
C14_MissingTemplateFailsStartup ==
  TemplateMissing => (~Started /\ \A m \in Msgs : pc[m] = "idle")

\* C15: the bot is started, and messages are handled, only when config.yaml
\* was loaded, its document is not empty, and its token is neither empty nor
\* the placeholder.
C15_StartedOnlyWithTokenAndConfig ==
  (Started \/ \E m \in Msgs : pc[m] # "idle")
    => /\ file.state = "ok"
       /\ file.doc # None /\ DOMAIN file.doc # {}
       /\ config = file.doc
       /\ file.doc.discord.bot_token # <<>>
       /\ file.doc.discord.bot_token # PlaceholderToken

C15_Witness ==
  /\ boot = "running"
  /\ file.doc = FullConfig
  /\ \E m \in Msgs : pc[m] = "done" /\ Len(sent[m]) = 1

\* C16: load_config opens the file once; it returns the parsed document when
\* the file is read and parsed, and returns None after logging, without
\* raising, when the file is missing or malformed.
C16_LoadConfigReturns ==
  boot # "start"
    => /\ loads = 1
       /\ file.state = "ok" => (boot # "raised_in_load" /\ config = file.doc)
       /\ file.state \in {"missing", "malformed"}
            => (boot # "raised_in_load" /\ config = None /\ mainlog >= 1)

C16_Witness ==
  /\ boot = "loaded"
  /\ file.state = "malformed"
  /\ config = None
  /\ mainlog = 1

\* C19: when load_config returned None or an empty document, main returns
\* normally without starting the bot.  Refuted: line 191 uses `logger` before
\* line 202 binds it, so main raises UnboundLocalError.
C19_EmptyConfigReturns ==
  (boot \notin {"start", "loaded", "raised_in_load"} /\ (config = None \/ DOMAIN config = {}))
    => boot = "returned"

(***************************************************************************)
(* Prompt extraction over raw texts built from pieces of the mention token. *)
(***************************************************************************)
\* how many pieces a raw text is built from
MaxChunks == 3

\* pieces of message.content: the two halves of the mention token, the
\* token, whitespace, a letter
Chunks == { <<"<", "@">>, <<"1", ">">>, MentionToken, <<" ">>, <<"h">> }

\* the texts made of at most n pieces
RECURSIVE TextsOf(_)
TextsOf(n) ==
  IF n = 0 THEN {<<>>}
  ELSE LET shorter == TextsOf(n - 1)
       IN  shorter \cup {t \o c : t \in shorter, c \in Chunks}

\* the messages on_message receives
ExtractMessages ==
  [ author : Users,
    mentions : {{}, {BotUser}},
    content : TextsOf(MaxChunks) ]

\* the responses query() yields
ExtractEvents == { AssistantMessage(<<TextBlock(<<"o", "k">>)>>) }

\* Messages of every such text handled one after the other
NextExtract ==
  \E m \in Msgs :
    \/ Alone(m) /\ \E msg \in ExtractMessages : on_message(m, msg)
    \/ reply_empty(m)
    \/ start_query(m)
    \/ \E ev \in ExtractEvents : next_event(m, ev)
    \/ end_of_stream(m)
    \/ \E k \in 1..MaxErrs : query_raises(m, k)
    \/ handle_exception(m)
    \/ process_commands(m)
    \/ discard(m)

SpecExtract == Init /\ [][NextExtract]_vars

\* t occurs in s
Contains(s, t) ==
  \E i \in 1..(Len(s) - Len(t) + 1) : SubSeq(s, i, i + Len(t) - 1) = t

\* s has no leading and no trailing whitespace
IsTrimmed(s) == Len(s) > 0 => (s[1] \notin Whitespace /\ s[Len(s)] \notin Whitespace)

\* every "<" of s begins an occurrence of the mention token, so that removing
\* the occurrences cannot join the pieces of another one
HasWholeMentionsOnly(s) ==
  \A i \in 1..Len(s) :
    s[i] = Head(MentionToken) =>
      /\ i + Len(MentionToken) - 1 <= Len(s)
      /\ SubSeq(s, i, i + Len(MentionToken) - 1) = MentionToken

\* C17 as stated: the prompt handed to the query contains no occurrence of
\* the mention token, has no leading or trailing whitespace, and extracting
\* from it again changes nothing.
C17_PromptHasNoMention ==
  \A m \in Msgs :
    queries[m] > 0 =>
      /\ ~Contains(user_content[m], MentionToken)
      /\ IsTrimmed(user_content[m])
      /\ ExtractPrompt(user_content[m]) = user_content[m]

\* C17 as amended: the prompt handed to the query has no leading or trailing
\* whitespace; and when every "<" of the raw text begins a mention token, the
\* prompt contains no occurrence of the token and extracting from it again
\* changes nothing.
C17_PromptOfWholeMentions ==
  \A m \in Msgs :
    queries[m] > 0 =>
      /\ IsTrimmed(user_content[m])
      /\ HasWholeMentionsOnly(message[m].content) =>
           /\ ~Contains(user_content[m], MentionToken)
           /\ ExtractPrompt(user_content[m]) = user_content[m]

\* a query issued for " <@1>h": token and whitespace are gone from the prompt
C17_Witness ==
  \E m \in Msgs :
    /\ queries[m] > 0
    /\ message[m].content = <<" ">> \o MentionToken \o <<"h">>
    /\ user_content[m] = <<"h">>

(***************************************************************************)
(* The length of the replies.                                              *)
(***************************************************************************)
\* the four templates of the configuration in use
Templates == {config.messages[k] : k \in DOMAIN config.messages}

\* C18: every reply that is not one of the four templates is at most
\* MaxReplyLen (4000) characters long.
C18_ReplyWithinLimit ==
  \A m \in Msgs :
    \A i \in DOMAIN sent[m] :
      sent[m][i].content \notin Templates => Len(sent[m][i].content) <= MaxReplyLen

(***************************************************************************)
(* The typing indicator.                                                   *)
(***************************************************************************)
\* C20: the typing indicator brackets the query.  It is on when the query
\* has been issued and at every step at which a stream event is awaited; it
\* is never on for a mention with an empty prompt, for which no query is
\* issued; and it is off once handle_mention is in its except* clause or has
\* finished, whether the query ended or raised.
C20_TypingBracketsQuery ==
  \A m \in Msgs :
    /\ pc[m] = "query" => (typing[m] /\ queries[m] = 1)
    /\ (IsMention(m) /\ PromptIsEmpty(m)) => (~typing[m] /\ queries[m] = 0)
    /\ (pc[m] = "handler" \/ Finished(m)) => ~typing[m]
    /\ typing[m] => pc[m] = "query"

\* a query that yielded an event under the indicator and then raised; the
\* handling has finished and the indicator is off
C20_Witness ==
  \E m \in Msgs :
    /\ IsMention(m)
    /\ pc[m] = "done"
    /\ queries[m] = 1
    /\ nEvents[m] > 0
    /\ e_group[m] > 0
    /\ ~typing[m]

====
